---- MODULE Spec2Model ----
(***************************************************************************)
(* A model of asmimg's AGB encoders (src/asmimg/formats/agb.rs) and of     *)
(* awsmimg's luma <-> index conversion (src/awsmimg/conversion.rs).        *)
(*                                                                         *)
(* Every call is modelled as a small state machine: `call` holds the       *)
(* arguments, `pc` the position of the call, `n` the number of completed   *)
(* loop iterations, `w` the bytes the output sink has accepted, `mid` an   *)
(* intermediate value (the index buffer of a round trip, the failure the   *)
(* sink reported) and `ret` what the call returned.  A panic (a failed     *)
(* unwrap(), an out-of-bounds index) is the outcome [tag |-> "panic"].     *)
(*                                                                         *)
(* The sample type is u8 wherever the code is generic over Primitive and   *)
(* computes through T::max_value(); index buffers handed to the indexed    *)
(* encoders may hold wider samples (Vec<u16>), which is what to_u8()       *)
(* decides on.  All f32 arithmetic is modelled with its rounding.          *)
(***************************************************************************)
EXTENDS Integers, Sequences, FiniteSets, TLC

VARIABLES call, pc, n, w, mid, ret

vars == <<call, pc, n, w, mid, ret>>

(***************************************************************************)
(* Bounds of the model.                                                    *)
(***************************************************************************)
\* palettes (and direct-colour images) of at most MaxPal colours
MaxPal == 2
\* images for the indexed encoders of at most MaxTilesX x MaxTilesY tiles
MaxTilesX == 2
MaxTilesY == 2
\* images for the luma conversion of at most MaxW x MaxH pixels
MaxW == 2
MaxH == 2
\* index buffers for luma_from_indexes of at most MaxLen samples
MaxLen == 4

(***************************************************************************)
(* Program constants.                                                      *)
(***************************************************************************)
\* T::max_value() / S::max_value() of the u8 sample type
U8Max == 255
\* the tile edge of the AGB 4bpp and 8bpp tiled formats
AGBTile == 8
\* tsize of AGB8Encoder::new_chunky
ChunkyTile == 1

None == [tag |-> "none"]
Panic == [tag |-> "panic"]

(***************************************************************************)
(* Integer helpers: TLC's integers are 32 bits wide, every intermediate    *)
(* value below stays under 2^31.                                           *)
(***************************************************************************)
RECURSIVE Pow2(_)
Pow2(k) == IF k = 0 THEN 1 ELSE 2 * Pow2(k - 1)

\* a & b on naturals of at most `bits` bits
RECURSIVE BitAnd(_, _, _)
BitAnd(a, b, bits) ==
  IF bits = 0 THEN 0
  ELSE (IF a % 2 = 1 /\ b % 2 = 1 THEN 1 ELSE 0)
       + 2 * BitAnd(a \div 2, b \div 2, bits - 1)

\* a | b on naturals of at most `bits` bits
RECURSIVE BitOr(_, _, _)
BitOr(a, b, bits) ==
  IF bits = 0 THEN 0
  ELSE (IF a % 2 = 1 \/ b % 2 = 1 THEN 1 ELSE 0)
       + 2 * BitOr(a \div 2, b \div 2, bits - 1)

\* u16 shifts
Shl16(a, k) == (a * Pow2(k)) % 65536
Shr16(a, k) == a \div Pow2(k)

(***************************************************************************)
(* f32.  A finite non-negative f32 is [k |-> "fin", m, e], the value       *)
(* m * 2^e with m = 0 or 2^23 <= m < 2^24 (24 significant bits, the        *)
(* values used here are far from the subnormal range); the others are      *)
(* [k |-> "inf"] and [k |-> "nan"].  Results are rounded to nearest, ties  *)
(* to even, as IEEE 754 division and multiplication are.                   *)
(***************************************************************************)
F32Zero == [k |-> "fin", m |-> 0, e |-> 0]
F32Inf == [k |-> "inf", m |-> 0, e |-> 0]
F32NaN == [k |-> "nan", m |-> 0, e |-> 0]

\* q, e after an increment of the significand q (renormalised at 2^24)
F32Carry(q, e) ==
  IF q + 1 = 16777216 THEN [k |-> "fin", m |-> 8388608, e |-> e + 1]
  ELSE [k |-> "fin", m |-> q + 1, e |-> e]

\* long division: q * 2^e + (r / d) * 2^e = a / d, until q has 24 bits
RECURSIVE F32DivLoop(_, _, _, _)
F32DivLoop(q, r, d, e) ==
  IF q >= 8388608
  THEN IF 2 * r > d \/ (2 * r = d /\ q % 2 = 1)
       THEN F32Carry(q, e)
       ELSE [k |-> "fin", m |-> q, e |-> e]
  ELSE F32DivLoop(2 * q + (IF 2 * r >= d THEN 1 ELSE 0), (2 * r) % d, d, e - 1)

\* (a as f32) / (d as f32), for integers 0 <= a, d < 2^16
F32Div(a, d) ==
  IF d = 0 THEN (IF a = 0 THEN F32NaN ELSE F32Inf)
  ELSE IF a = 0 THEN F32Zero
  ELSE F32DivLoop(a \div d, a % d, d, 0)

\* the product hi * 2^12 + lo (lo < 2^12) shifted right until 24 bits are
\* left, with the guard bit g and the sticky bit s of what was shifted out
RECURSIVE F32MulLoop(_, _, _, _, _)
F32MulLoop(hi, lo, g, s, e) ==
  IF hi >= 4096
  THEN F32MulLoop(hi \div 2, (lo \div 2) + 2048 * (hi % 2), lo % 2,
                  IF g = 1 \/ s = 1 THEN 1 ELSE 0, e + 1)
  ELSE LET q == hi * 4096 + lo
       IN IF g = 1 /\ (s = 1 \/ q % 2 = 1)
          THEN F32Carry(q, e)
          ELSE [k |-> "fin", m |-> q, e |-> e]

\* x * (c as f32), for a non-negative f32 x and an integer 0 <= c < 2^16
F32MulInt(x, c) ==
  IF x.k = "nan" THEN F32NaN
  ELSE IF x.k = "inf" THEN (IF c = 0 THEN F32NaN ELSE F32Inf)
  ELSE IF x.m = 0 \/ c = 0 THEN F32Zero
  ELSE LET mh == x.m \div 4096
           ml == x.m % 4096
       IN F32MulLoop(mh * c + ((ml * c) \div 4096), (ml * c) % 4096, 0, 0, x.e)

\* f32::floor() of a finite non-negative f32, as an integer (values < 2^24)
F32Floor(x) ==
  IF x.m = 0 THEN 0
  ELSE IF x.e >= 0 THEN x.m * Pow2(x.e)
  ELSE IF 0 - x.e >= 24 THEN 0
  ELSE x.m \div Pow2(0 - x.e)

\* `x as u16`: truncation, saturating at the ends of the type, NaN to 0
F32AsU16(x) ==
  IF x.k = "nan" THEN 0
  ELSE IF x.k = "inf" THEN 65535
  ELSE IF F32Floor(x) > 65535 THEN 65535 ELSE F32Floor(x)

\* NumCast::from(x) for a u8 target: None unless the truncated value fits
F32ToU8(x) ==
  IF x.k # "fin" THEN None
  ELSE IF F32Floor(x) > U8Max THEN None
  ELSE [tag |-> "some", v |-> F32Floor(x)]

(***************************************************************************)
(* The output sink (std::io::Write).  A write() either accepts the buffer  *)
(* or reports a failure of some io::ErrorKind; the encoders never look at  *)
(* the byte count of an accepted write.  `mid` keeps the sink's side of    *)
(* the story: how many write() calls were issued, how many of them failed  *)
(* and the failure last reported.                                          *)
(***************************************************************************)
ErrorKinds == {"BrokenPipe", "WriteZero"}

SinkResults == {[tag |-> "ok", kind |-> "none"]}
               \cup {[tag |-> "err", kind |-> e] : e \in ErrorKinds}

Ok == [tag |-> "ok", kind |-> "none"]
Running == [tag |-> "running", kind |-> "none"]
Panicked == [tag |-> "panic", kind |-> "none"]

SinkIdle == [calls |-> 0, failed |-> 0, err |-> Ok]

\* a `?` that drops the failure, as `let _ = w.write(..)` would
QuestionIgnored(r) == [tag |-> "continue", v |-> Ok]

\* the `?` after self.w.write(..): an Err leaves the function as it is
Question(r) ==
  IF r.tag = "err" THEN [tag |-> "return", v |-> r]
  ELSE [tag |-> "continue", v |-> Ok]

\* `w.write(&buf)?` when the sink answers r, ending one loop iteration
Write(buf, r) ==
  /\ w' = IF r.tag = "ok" THEN w \o buf ELSE w
  /\ mid' = [calls |-> mid.calls + 1,
             failed |-> mid.failed + (IF r.tag = "err" THEN 1 ELSE 0),
             err |-> IF r.tag = "err" THEN r ELSE mid.err]
  /\ IF Question(r).tag = "return"
     THEN pc' = "done" /\ ret' = Question(r).v /\ n' = n
     ELSE pc' = pc /\ ret' = ret /\ n' = n + 1
  /\ UNCHANGED call

\* a failed unwrap()
Unwind ==
  /\ pc' = "done"
  /\ ret' = Panicked
  /\ UNCHANGED <<call, n, w, mid>>

\* the Ok(()) that ends an encode
ReturnOk ==
  /\ pc' = "done"
  /\ ret' = Ok
  /\ UNCHANGED <<call, n, w, mid>>

(***************************************************************************)
(* encode_palette (agb.rs:9-30), shared by the palette entry points of the *)
(* indexed encoders and by AGB16Encoder::encode_colors.                    *)
(***************************************************************************)
\* channel / imgmax * 255f32 as u16
Normalize8(c) == F32AsU16(F32MulInt(F32Div(c, U8Max), 255))

\* the alpha sample as the code takes it
AlphaOf(use_alpha, c) == IF use_alpha THEN F32AsU16(F32Div(c, U8Max)) ELSE 0

\* a & 0x80 << 8 | b & 0xF8 << 7 | g & 0xF8 << 2 | r >> 3, with Rust's
\* precedence: shifts bind tighter than &, & tighter than |
enc_color(r, g, b, a) ==
  BitOr(BitOr(BitOr(BitAnd(a, Shl16(128, 8), 16),
                    BitAnd(b, Shl16(248, 7), 16), 16),
              BitAnd(g, Shl16(248, 2), 16), 16),
        Shr16(r, 3), 16)

\* the two bytes written for one colour
PaletteOut(rgba, use_alpha) ==
  LET c == enc_color(Normalize8(rgba[1]), Normalize8(rgba[2]),
                     Normalize8(rgba[3]), AlphaOf(use_alpha, rgba[4]))
  IN <<BitAnd(Shr16(c, 0), 255, 16), BitAnd(Shr16(c, 8), 255, 16)>>

PaletteFns == {"AGB4Encoder::encode_palette", "AGB8Encoder::encode_palette",
               "AGB16Encoder::encode_colors"}

\* one iteration of `for rgba in palette`
encode_palette ==
  /\ pc = "run"
  /\ call.fn \in PaletteFns
  /\ n < Len(call.palette)
  /\ \E r \in SinkResults :
       Write(PaletteOut(call.palette[n + 1], call.use_alpha), r)

encode_palette_end ==
  /\ pc = "run"
  /\ call.fn \in PaletteFns
  /\ n = Len(call.palette)
  /\ ReturnOk

(***************************************************************************)
(* TileChunkIterator (asmimg::tiles) is not among the sources; it is       *)
(* modelled from its specification: tiles in row-major tile order, each    *)
(* tile's samples in row-major order.                                      *)
(***************************************************************************)
\* the source index of tile t's sample (px, py)
TileSrcIndex(t, px, py, width, tw, th) ==
  ((t \div (width \div tw)) * th + py) * width + ((t % (width \div tw)) * tw + px)

\* the number of tiles the iterator yields
TileCount(data, tw, th) == Len(data) \div (tw * th)

\* tile t (from 0) as a sequence of tw * th samples
TileChunk(data, tw, th, width, t) ==
  [j \in 1..(tw * th) |->
     data[TileSrcIndex(t, (j - 1) % tw, (j - 1) \div tw, width, tw, th) + 1]]

(***************************************************************************)
(* The indexed encoders.                                                   *)
(***************************************************************************)
\* ToPrimitive::to_u8 of an unsigned sample
to_u8(x) == IF x <= U8Max THEN [tag |-> "some", v |-> x] ELSE None

\* byte[0] & 0x0F | (byte[1] & 0x0F) << 4 on u8
Pack4(b0, b1) == BitOr(BitAnd(b0, 15, 8), BitAnd(b1, 15, 8) * 16, 8)

\* one iteration of `for byte in tile.chunks(2)` (agb.rs:73-76); n counts
\* the writes, 32 to a tile
AGB4Encoder_encode_indexes ==
  /\ pc = "run"
  /\ call.fn = "AGB4Encoder::encode_indexes"
  /\ n < 32 * TileCount(call.data, AGBTile, AGBTile)
  /\ LET tile == TileChunk(call.data, AGBTile, AGBTile, call.width, n \div 32)
         b0 == to_u8(tile[2 * (n % 32) + 1])
         b1 == to_u8(tile[2 * (n % 32) + 2])
     IN IF b0.tag = "none" \/ b1.tag = "none"
        THEN Unwind
        ELSE \E r \in SinkResults : Write(<<Pack4(b0.v, b1.v)>>, r)

AGB4Encoder_end ==
  /\ pc = "run"
  /\ call.fn = "AGB4Encoder::encode_indexes"
  /\ n = 32 * TileCount(call.data, AGBTile, AGBTile)
  /\ ReturnOk

\* out[0 .. tsize] after out[i] = byte.to_u8().unwrap() & 0xFF for the tile
Out8(tile, tsize) == [j \in 1..tsize |-> BitAnd(tile[j], 255, 8)]

\* one iteration of the tile loop (agb.rs:118-124); n counts the tiles
AGB8Encoder_encode_indexes ==
  /\ pc = "run"
  /\ call.fn = "AGB8Encoder::encode_indexes"
  /\ n < TileCount(call.data, call.tsize, call.tsize)
  /\ LET tile == TileChunk(call.data, call.tsize, call.tsize, call.width, n)
     IN IF \E j \in 1..Len(tile) : to_u8(tile[j]).tag = "none"
        THEN Unwind
        ELSE \E r \in SinkResults : Write(Out8(tile, call.tsize * call.tsize), r)

AGB8Encoder_end ==
  /\ pc = "run"
  /\ call.fn = "AGB8Encoder::encode_indexes"
  /\ n = TileCount(call.data, call.tsize, call.tsize)
  /\ ReturnOk

(***************************************************************************)
(* The calls of the encoder specification.                                 *)
(***************************************************************************)
\* the RGBA<u8> colours of the palettes and direct-colour images
Colors ==
  {<<0, 0, 0, 0>>, <<0, 0, 0, 128>>, <<0, 0, 0, 255>>,
   <<255, 0, 0, 255>>, <<0, 8, 0, 255>>, <<0, 255, 0, 255>>,
   <<0, 0, 255, 255>>, <<255, 255, 255, 0>>, <<255, 255, 255, 255>>,
   <<9, 70, 131, 127>>}

\* index buffers: a ramp from `off`, with one sample replaced by v at `at`
\* (at = 0: none replaced)
RampOffsets == {0, 250}
WideSamples == {256, 65535}
IndexData(len, off, at, v) ==
  [j \in 1..len |-> IF j = at THEN v ELSE (off + j - 1) % 256]

EncCall(fn, data, width, tsize, palette, use_alpha) ==
  [fn |-> fn, data |-> data, width |-> width, tsize |-> tsize,
   palette |-> palette, use_alpha |-> use_alpha]

IndexEncoders ==
  {<<"AGB4Encoder::encode_indexes", AGBTile>>,
   <<"AGB8Encoder::encode_indexes", AGBTile>>,
   <<"AGB8Encoder::encode_indexes", ChunkyTile>>}

\* new_agb and the indexed encoders pack with use_alpha = false, new_ntr
\* with use_alpha = true
PaletteEncoders ==
  {<<"AGB4Encoder::encode_palette", FALSE>>,
   <<"AGB8Encoder::encode_palette", FALSE>>,
   <<"AGB16Encoder::encode_colors", FALSE>>,
   <<"AGB16Encoder::encode_colors", TRUE>>}

InitCall ==
  \/ \E f \in IndexEncoders, tx \in 1..MaxTilesX, ty \in 1..MaxTilesY,
        off \in RampOffsets, at \in {0, 1, 2, 64}, v \in WideSamples :
       call = EncCall(f[1], IndexData(64 * tx * ty, off, at, v), AGBTile * tx,
                      f[2], <<>>, FALSE)
  \/ \E f \in PaletteEncoders, len \in 0..MaxPal :
       \E p \in [1..len -> Colors] :
         call = EncCall(f[1], <<>>, 0, 0, p, f[2])

Init ==
  /\ InitCall
  /\ pc = "run"
  /\ n = 0
  /\ w = <<>>
  /\ mid = SinkIdle
  /\ ret = Running

Next ==
  \/ encode_palette
  \/ encode_palette_end
  \/ AGB4Encoder_encode_indexes
  \/ AGB4Encoder_end
  \/ AGB8Encoder_encode_indexes
  \/ AGB8Encoder_end

Spec == Init /\ [][Next]_vars

(***************************************************************************)
(* Properties of the encoders, checked under Spec.                         *)
(***************************************************************************)
IndexFns == {"AGB4Encoder::encode_indexes", "AGB8Encoder::encode_indexes"}

\* the k-th 16-bit word of the sink, read low byte first
WordAt(k) == w[2 * k - 1] + 256 * w[2 * k]

\* the bytes one accepted write of the call adds to the sink
ChunkLen ==
  IF call.fn \in PaletteFns THEN 2
  ELSE IF call.fn = "AGB4Encoder::encode_indexes" THEN 1
  ELSE call.tsize * call.tsize

\* C1: every colour handed to the palette packer comes out as a 16-bit
\* word, low byte first, with the top 5 bits of red in bits 4-0, of green
\* in bits 9-5 and of blue in bits 14-10 (a u8 channel is its own
\* normalisation to 0..255).
C1_PackedFields ==
  call.fn \in PaletteFns =>
    /\ Len(w) = 2 * n
    /\ \A k \in 1..n :
         /\ WordAt(k) % 32 = call.palette[k][1] \div 8
         /\ (WordAt(k) \div 32) % 32 = call.palette[k][2] \div 8
         /\ (WordAt(k) \div 1024) % 32 = call.palette[k][3] \div 8

\* C2: bit 15 of every packed word is 0 without use_alpha and the top bit
\* of the 8-bit alpha sample with it, so that under new_ntr an opaque and
\* a transparent pixel of one colour give different words.
C2_AlphaBit ==
  call.fn \in PaletteFns =>
    \A k \in 1..n :
      WordAt(k) \div 32768 =
        (IF call.use_alpha THEN call.palette[k][4] \div 128 ELSE 0)

\* C5: the first write the sink fails ends the encode: the call is over,
\* it returned the very failure the sink reported, the failed write is the
\* last one issued (no retry, no later write) and the bytes of the writes
\* accepted before it are all the sink holds.
C5_FirstFailureEnds ==
  mid.failed > 0 =>
    /\ mid.failed = 1
    /\ pc = "done"
    /\ ret = mid.err
    /\ mid.calls = n + 1
    /\ Len(w) = n * ChunkLen

\* a write failed after the sink had accepted earlier ones
C5_Witness ==
  /\ mid.failed = 1
  /\ n > 0
  /\ pc = "done"
  /\ ret.tag = "err"
  /\ ret.kind = "WriteZero"

\* C7: a completed 4bpp encode has written 32 bytes per 8x8 tile, byte k of
\* a tile holding tile-ordered sample 2k in its low nibble and sample 2k+1
\* in its high nibble.
C7_Layout4 ==
  (call.fn = "AGB4Encoder::encode_indexes" /\ pc = "done" /\ mid.failed = 0) =>
    /\ ret = Ok
    /\ Len(w) = 32 * TileCount(call.data, AGBTile, AGBTile)
    /\ \A t \in 0..(TileCount(call.data, AGBTile, AGBTile) - 1) :
         \A k \in 0..31 :
           LET tile == TileChunk(call.data, AGBTile, AGBTile, call.width, t)
               byte == w[32 * t + k + 1]
           IN /\ byte % 16 = tile[2 * k + 1] % 16
              /\ byte \div 16 = tile[2 * k + 2] % 16

\* C8: a completed 8bpp encode has written one byte per sample: the input
\* in raster order when chunky, and when tiled the sample at source index
\* ((t / (width/8))*8 + py)*width + (t % (width/8))*8 + px at output
\* position t*64 + py*8 + px; on a single 8x8 tile both are the input.
C8_Layout8 ==
  (call.fn = "AGB8Encoder::encode_indexes" /\ pc = "done" /\ mid.failed = 0) =>
    /\ ret = Ok
    /\ Len(w) = Len(call.data)
    /\ call.tsize = ChunkyTile => w = call.data
    /\ call.tsize = AGBTile =>
         \A t \in 0..((Len(call.data) \div 64) - 1) :
           \A py \in 0..7 : \A px \in 0..7 :
             w[t * 64 + py * 8 + px + 1] =
               call.data[((t \div (call.width \div 8)) * 8 + py) * call.width
                         + (t % (call.width \div 8)) * 8 + px + 1]
    /\ (call.width = 8 /\ Len(call.data) = 64) => w = call.data

\* C10: no sample is rejected for being too large: when the sink accepts
\* every write the indexed encode returns Ok, having emitted every sample
\* masked to its low 4 bits (4bpp) or low 8 bits (8bpp).
C10_MaskedNotRejected ==
  (call.fn \in IndexFns /\ pc = "done" /\ mid.failed = 0) =>
    /\ ret = Ok
    /\ call.fn = "AGB8Encoder::encode_indexes" =>
         \A t \in 0..(TileCount(call.data, call.tsize, call.tsize) - 1) :
           \A j \in 1..(call.tsize * call.tsize) :
             w[t * call.tsize * call.tsize + j] =
               TileChunk(call.data, call.tsize, call.tsize, call.width, t)[j] % 256
    /\ call.fn = "AGB4Encoder::encode_indexes" =>
         \A t \in 0..(TileCount(call.data, AGBTile, AGBTile) - 1) :
           \A k \in 0..31 :
             w[32 * t + k + 1] =
               (TileChunk(call.data, AGBTile, AGBTile, call.width, t)[2 * k + 1] % 16)
               + 16 * (TileChunk(call.data, AGBTile, AGBTile, call.width, t)[2 * k + 2] % 16)

\* what does hold of the indexed encoders: with samples that are u8 values
\* the layouts of C7 and C8 are what a completed encode has written, and
\* the only way to fail without the sink is the unwrap() of to_u8()
SamplesAreU8 == \A j \in 1..Len(call.data) : call.data[j] <= U8Max

LayoutOfU8Samples ==
  (call.fn \in IndexFns /\ SamplesAreU8) =>
    C7_Layout4 /\ C8_Layout8 /\ C10_MaskedNotRejected

PanicOnlyOnWideSample ==
  ret.tag = "panic" => (call.fn \in IndexFns /\ ~SamplesAreU8)

\* what the packer emits instead of C1's and C2's word: the red field, the
\* top three bits of green at bits 7-5, nothing of blue or alpha
PackedAsCoded ==
  call.fn \in PaletteFns =>
    \A k \in 1..n :
      WordAt(k) = (call.palette[k][1] \div 8) + 32 * (call.palette[k][2] \div 32)

(***************************************************************************)
(* awsmimg::conversion.  An image is [width, height, px], px its pixels in *)
(* the order image.pixels() yields them (row by row, x fastest), each a    *)
(* LumaA<u8> pair <<luma, alpha>>.                                         *)
(***************************************************************************)
Image(width, height, px) == [tag |-> "some", width |-> width, height |-> height, px |-> px]

\* Vec::resize(new_len, value)
Resize(v, new_len, value) ==
  [j \in 1..new_len |-> IF j <= Len(v) THEN v[j] ELSE value]

\* rounding up instead of down
QuantizeCeil(gray, maxcol) ==
  LET x == F32MulInt(F32Div(gray, U8Max), maxcol)
  IN IF x.m = 0 \/ x.e >= 0 THEN F32ToU8(x)
     ELSE IF 0 - x.e >= 24 THEN [tag |-> "some", v |-> 1]
     ELSE IF x.m % Pow2(0 - x.e) = 0 THEN F32ToU8(x)
     ELSE [tag |-> "some", v |-> F32Floor(x) + 1]

\* S::from((gray / imgmax * maxcol_adj).floor()) (conversion.rs:54)
Quantize(gray, maxcol) == F32ToU8(F32MulInt(F32Div(gray, U8Max), maxcol))

\* outidx of the pixel (ix, iy) (conversion.rs:42-48): ty and py are
\* computed with tw, as the code does
OutIdx(ix, iy, width, tw, th) ==
  LET tx == ix \div tw
      px == ix % tw
      ty == iy \div tw
      py == iy % tw
      itile == ty * (width \div tw) + tx
  IN itile * (tw * th) + py * tw + px

\* the loop over image.pixels() from the k-th pixel on, `out` being the
\* vector so far: Panic when out[outidx] is out of bounds or the cast fails
RECURSIVE indexes_loop(_, _, _, _, _, _)
indexes_loop(image, maxcol, tw, th, k, out) ==
  IF k > image.width * image.height THEN [tag |-> "ok", v |-> out]
  ELSE LET gray == image.px[k][1]
           alpha == image.px[k][2]
           outidx == OutIdx((k - 1) % image.width, (k - 1) \div image.width,
                            image.width, tw, th)
           grown == IF outidx >= Len(out) /\ alpha # 0
                    THEN Resize(out, outidx + 1, 0) ELSE out
           val == Quantize(gray, maxcol)
       IN IF outidx >= Len(grown) \/ val.tag = "none" THEN Panic
          ELSE indexes_loop(image, maxcol, tw, th, k + 1,
                            [grown EXCEPT ![outidx + 1] = val.v])

indexes_from_luma(image, maxcol, tw, th) ==
  indexes_loop(image, maxcol, tw, th, 1, <<>>)

\* (n as f32).sqrt().ceil() as u32: the f32 square root of a small integer
\* is exact on squares and strictly between two integers otherwise
RECURSIVE CeilSqrtFrom(_, _)
CeilSqrtFrom(k, x) == IF k * k >= x THEN k ELSE CeilSqrtFrom(k + 1, x)
CeilSqrt(x) == CeilSqrtFrom(0, x)

\* ((a as f32) / (b as f32)).ceil() as u32; 0/0 is NaN, whose cast is
\* `nancast` (0 since Rust 1.45, unspecified before)
CeilDiv(a, b, nancast) ==
  IF b = 0 THEN (IF a = 0 THEN nancast ELSE 65535)
  ELSE (a + b - 1) \div b

\* the pixel (x, y) of the decoded image (conversion.rs:109-126)
DecodedPixel(data, colscale, tw, th, iw, x, y) ==
  LET tileid == ((y \div th) * (iw \div tw)) + (x \div tw)
      tilepx == ((y % th) * tw) + (x % tw)
      tileidx == tileid * (tw * th) + tilepx
  IN IF tileidx >= Len(data) THEN [tag |-> "some", v |-> <<0, 0>>]
     ELSE LET c == F32ToU8(F32MulInt(colscale, data[tileidx + 1]))
          IN IF c.tag = "none" THEN None
             ELSE [tag |-> "some", v |-> <<c.v, 255>>]

\* the image size check alone, the length of the data not looked at
ShapeOkLax(len, tw, th, iw, ih) == iw % tw = 0 /\ ih % th = 0

\* the two shape checks (conversion.rs:85 and 101)
ShapeOk(len, tw, th, iw, ih) ==
  /\ (len \div (tw * th)) * (tw * th) = len
  /\ iw % tw = 0
  /\ ih % th = 0

luma_from_indexes(data, maxcol, tw, th, isize, nancast) ==
  LET tcount == Len(data) \div (tw * th)
      iw == IF isize.tag = "some" THEN isize.w ELSE CeilSqrt(tcount) * tw
      ih == IF isize.tag = "some" THEN isize.h
            ELSE CeilDiv(tcount, iw \div tw, nancast) * th
      colscale == F32Div(255, maxcol)
      px == [j \in 1..(iw * ih) |->
              DecodedPixel(data, colscale, tw, th, iw, (j - 1) % iw, (j - 1) \div iw)]
  IN IF ~ShapeOk(Len(data), tw, th, iw, ih) THEN None
     ELSE IF \E j \in 1..(iw * ih) : px[j].tag = "none" THEN Panic
     ELSE Image(iw, ih, [j \in 1..(iw * ih) |-> px[j].v])

(***************************************************************************)
(* The calls of the conversion specifications.                             *)
(***************************************************************************)
NoSize == [tag |-> "none", w |-> 0, h |-> 0]
Size(width, height) == [tag |-> "some", w |-> width, h |-> height]
NaNCasts == {0, 1}

ConvCall(fn, image, data, maxcol, tw, th, isize) ==
  [fn |-> fn, image |-> image, data |-> data, maxcol |-> maxcol,
   tw |-> tw, th |-> th, isize |-> isize]

\* indexes_from_luma(&image, maxcol, (tw, th))
call_indexes_from_luma ==
  /\ pc = "run"
  /\ call.fn \in {"indexes_from_luma", "roundtrip"}
  /\ mid' = indexes_from_luma(call.image, call.maxcol, call.tw, call.th)
  /\ pc' = IF mid'.tag = "ok" /\ call.fn = "roundtrip" THEN "encoded" ELSE "done"
  /\ ret' = IF mid'.tag = "ok" THEN Ok ELSE Panicked
  /\ UNCHANGED <<call, n, w>>

\* luma_from_indexes(data, maxcol, (tw, th), isize), on the buffer of the
\* round trip or on the call's own
call_luma_from_indexes ==
  /\ \/ pc = "encoded" /\ call.fn = "roundtrip"
     \/ pc = "run" /\ call.fn = "luma_from_indexes"
  /\ \E c \in NaNCasts :
       ret' = luma_from_indexes(IF call.fn = "roundtrip" THEN mid.v ELSE call.data,
                                call.maxcol, call.tw, call.th, call.isize, c)
  /\ pc' = "done"
  /\ UNCHANGED <<call, n, w, mid>>

Divisors(k) == {d \in 1..k : k % d = 0}

\* luma ramps and alpha values of the test images
LumaBases == {0, 100, 253}
LumaAlphas == {0, 128, 255}
NoImage == Image(0, 0, <<>>)

InitConv ==
  /\ \E iw \in 1..MaxW, ih \in 1..MaxH, b \in LumaBases :
       \E a \in [1..(iw * ih) -> LumaAlphas], tw \in Divisors(iw), th \in Divisors(ih) :
         call = ConvCall("roundtrip",
                         Image(iw, ih, [j \in 1..(iw * ih) |-> <<(b + j - 1) % 256, a[j]>>]),
                         <<>>, 255, tw, th, Size(iw, ih))
  /\ pc = "run"
  /\ n = 0
  /\ w = <<>>
  /\ mid = None
  /\ ret = Running

NextConv ==
  \/ call_indexes_from_luma
  \/ call_luma_from_indexes

SpecConv == InitConv /\ [][NextConv]_vars

\* every luminance and every maxcol of the u8 sample type, on a 1x1 image
InitQuant ==
  /\ \E g \in 0..U8Max, mc \in 1..U8Max :
       call = ConvCall("indexes_from_luma", Image(1, 1, <<<<g, 255>>>>), <<>>,
                       mc, 1, 1, NoSize)
  /\ pc = "run"
  /\ n = 0
  /\ w = <<>>
  /\ mid = None
  /\ ret = Running

NextQuant == call_indexes_from_luma

SpecQuant == InitQuant /\ [][NextQuant]_vars

\* index buffers, tile sizes and image sizes for luma_from_indexes
DecodeSamples == {0, 16, 255}
DecodeMaxcols == {15, 255}
MaxTileEdge == 2
MaxSide == 2

InitDecode ==
  /\ \E len \in 0..MaxLen, mc \in DecodeMaxcols,
        tw \in 1..MaxTileEdge, th \in 1..MaxTileEdge,
        sz \in {NoSize} \cup {Size(x, y) : x \in 0..MaxSide, y \in 0..MaxSide} :
       \E d \in [1..len -> DecodeSamples] :
         call = ConvCall("luma_from_indexes", NoImage, d, mc, tw, th, sz)
  /\ pc = "run"
  /\ n = 0
  /\ w = <<>>
  /\ mid = None
  /\ ret = Running

NextDecode == call_luma_from_indexes

SpecDecode == InitDecode /\ [][NextDecode]_vars

(***************************************************************************)
(* Properties of the conversion.                                           *)
(***************************************************************************)
\* the tile address of the pixel (x, y): tiles left to right, top to
\* bottom, the pixels of a tile row by row
TileAddr(x, y, width, tw, th) ==
  ((y \div th) * (width \div tw) + (x \div tw)) * (tw * th) + (y % th) * tw + (x % tw)

PixelCount == call.image.width * call.image.height
AddrOf(j) ==
  TileAddr((j - 1) % call.image.width, (j - 1) \div call.image.width,
           call.image.width, call.tw, call.th)
Opaque(j) == call.image.px[j][2] = 255
Transparent(j) == call.image.px[j][2] = 0

\* C3 (under SpecConv): for a tile size dividing the image, square or not,
\* the round trip through indexes_from_luma and luma_from_indexes at maxcol
\* 255 returns an image of the original size whose luminance equals the
\* original's at every fully opaque pixel.
C3_RoundTrip ==
  (call.fn = "roundtrip" /\ pc = "done" /\ mid.tag = "ok") =>
    /\ ret.tag = "some"
    /\ ret.width = call.image.width
    /\ ret.height = call.image.height
    /\ \A j \in 1..PixelCount : Opaque(j) => ret.px[j][1] = call.image.px[j][1]

\* the last tiles, and only they, are transparent: every transparent pixel
\* has a higher tile address than every other one, and the transparent
\* region starts on a tile boundary
TrailingTilesTransparent ==
  /\ \E j \in 1..PixelCount : Transparent(j)
  /\ \E j \in 1..PixelCount : ~Transparent(j)
  /\ \A j, k \in 1..PixelCount :
       (Transparent(j) /\ ~Transparent(k)) => AddrOf(j) > AddrOf(k)
  /\ \A j \in 1..PixelCount :
       (Transparent(j) /\ \A k \in 1..PixelCount : Transparent(k) => AddrOf(j) <= AddrOf(k))
         => AddrOf(j) % (call.tw * call.th) = 0

\* C4 (under SpecConv): on an image whose trailing tiles are entirely
\* transparent indexes_from_luma completes normally, and the buffer it
\* returns is one longer than the largest tile address of a non-transparent
\* pixel: the transparent tail is left out.
C4_TransparentTail ==
  (call.fn = "roundtrip" /\ pc # "run" /\ TrailingTilesTransparent) =>
    /\ mid.tag = "ok"
    /\ \E j \in 1..PixelCount :
         /\ ~Transparent(j)
         /\ \A k \in 1..PixelCount : ~Transparent(k) => AddrOf(k) <= AddrOf(j)
         /\ Len(mid.v) = AddrOf(j) + 1

\* what the code does with a transparent pixel: it never grows the buffer
\* for it, and it fails on the store whenever the pixel lies beyond the
\* buffer, which a transparent tail always does
TransparentTailPanics ==
  (call.fn = "roundtrip" /\ pc # "run" /\ TrailingTilesTransparent) =>
    mid.tag = "panic"

\* with square tiles and no transparent pixel the round trip does hold
SquareOpaqueRoundTrip ==
  (call.fn = "roundtrip" /\ pc = "done" /\ call.tw = call.th
     /\ \A j \in 1..PixelCount : ~Transparent(j)) =>
    mid.tag = "ok" /\ C3_RoundTrip

\* the value the 1x1 image's pixel was given
QuantValue == mid.v[1]
QuantGray == call.image.px[1][1]

ShapeMismatch ==
  \/ Len(call.data) % (call.tw * call.th) # 0
  \/ call.isize.tag = "some"
       /\ (call.isize.w % call.tw # 0 \/ call.isize.h % call.th # 0)

DecodeInRange ==
  /\ call.maxcol >= 1
  /\ \A j \in 1..Len(call.data) : call.data[j] <= call.maxcol

PanicOnlyOutOfRange ==
  (call.fn = "luma_from_indexes" /\ ret.tag = "panic") =>
    (~ShapeMismatch /\ ~DecodeInRange)

====
